---- MODULE Spec2Model ----
(***************************************************************************)
(* Breakpoint reconciliation of SourceAdapter (src/adapter/adapter/        *)
(* source.ts): updateBreakpoints, checkAndSyncBreakpoints and the          *)
(* asynchronous syncBreakpoints, for the modern and the legacy breakpoint  *)
(* protocol.  The legacy variant starts its runs through the thread's      *)
(* pause coordinator (runOnPausedThread).  Also the lookups and dispose of  *)
(* the adapter, createSource, and parseConfiguration of the session start. *)
(***************************************************************************)
EXTENDS Integers, Sequences, FiniteSets, TLC

VARIABLES
    newBreakpointProtocol,  \* constructor argument: TRUE = modern protocol
    pool,                   \* the breakpoint descriptors the editor uses
    adapters,               \* the ids of the constructed SourceAdapters
    currentBreakpoints,     \* per adapter: BreakpointAdapter[] set in Firefox
    desiredBreakpoints,     \* per adapter: pending BreakpointInfo[] or undefined
    isSyncingBreakpoints,   \* per adapter: the in-flight flag
    activeRuns,             \* per adapter: the syncBreakpoints() calls not yet settled
    verified,               \* per adapter: verifyBreakpoint calls made by the
                            \*   latest step of the adapter
    threadState,            \* pause coordinator: Running, Pausing, Paused, Resuming
    queue,                  \* pause coordinator: adapters whose action is queued
    running,                \* pause coordinator: adapter whose action executes, 0 if none
    ownPause,               \* pause coordinator: it requested the current pause
    pauseRequests,          \* pause coordinator: pause requests sent to the thread
    resumeRequests,         \* pause coordinator: resume requests sent to the thread
    disposed,               \* per adapter: dispose() has been called
    found,                  \* what the latest lookup returned, <<>> before the first
    logMessage,             \* modern add: requestedBreakpoint.logMessage
    logValue,               \* modern add: the logValue passed to setBreakpoint,
                            \*   <<>> before the call
    config,                 \* parseConfiguration: the configuration of VS Code
    env,                    \* parseConfiguration: what it finds on the machine
    parsed,                 \* parseConfiguration: its result, or what it threw
    sourceArgs,             \* createSource: actor, sourcePath and id
    source,                 \* createSource: the Source it returned
    nsub,                   \* history: number of updateBreakpoints calls so far
    lastSubmitted,          \* history: per adapter, the most recently submitted set
    runLog,                 \* history: per adapter, one entry per syncBreakpoints call
    overwritten,            \* history: submissions replaced while still pending
    backToBack,             \* history: per adapter, the latest submission arrived
                            \*   before the previous one was reconciled
    lastApplied,            \* history: per adapter, the set of the last completed run
    lastFailed              \* history: per adapter, the latest run if a remote
                            \*   operation of it failed

vars == <<newBreakpointProtocol, pool, adapters, currentBreakpoints,
          desiredBreakpoints, isSyncingBreakpoints, activeRuns, verified,
          threadState, queue, running, ownPause, pauseRequests,
          resumeRequests, disposed, found, logMessage, logValue,
          config, env, parsed, sourceArgs, source,
          nsub, lastSubmitted, runLog, overwritten, backToBack,
          lastApplied, lastFailed>>

\* the variables of the session start-up, which no adapter step touches
startupVars == <<config, env, parsed, sourceArgs, source>>

\* the log message of an add and the log expression sent for it
requestVars == <<logMessage, logValue>>

----------------------------------------------------------------------------
(* Bounds *)

MaxLen == 2        \* longest desired array the editor submits
MaxSubmits == 3    \* number of updateBreakpoints calls in one behaviour

----------------------------------------------------------------------------
(* Breakpoint descriptors *)

NoColumn == 0 - 1          \* requestedBreakpoint.column === undefined
NoPos == 0 - 1             \* actualLine / actualColumn not populated
NoText == "undefined"      \* condition / logMessage === undefined

Base ==
    [line |-> 5, column |-> NoColumn, condition |-> NoText, logMessage |-> NoText]

\* Base with exactly one of the four requested fields changed
Variants ==
    { [Base EXCEPT !.line = 6],
      [Base EXCEPT !.column = 1],
      [Base EXCEPT !.condition = "x>1"],
      [Base EXCEPT !.logMessage = "hit {x}"] }

Pools == { {Base, v} : v \in Variants }

BreakpointInfo(req) ==
    [requestedBreakpoint |-> req, actualLine |-> NoPos, actualColumn |-> NoPos]

\* the arrays updateBreakpoints may be called with: up to MaxLen descriptors
\* of the pool, equivalent ones included, listed in the editor's order (the
\* base descriptor before its variant)
DesiredArrays(p) ==
    LET all == UNION { [1..n -> {BreakpointInfo(d) : d \in p}] : n \in 0..MaxLen }
    IN  { arr \in all :
            \A i, j \in 1..Len(arr) :
                (i < j /\ arr[j].requestedBreakpoint = Base) =>
                    arr[i].requestedBreakpoint = Base }

isEquivalent(a, b) ==
    /\ a.requestedBreakpoint.line = b.requestedBreakpoint.line
    /\ a.requestedBreakpoint.column = b.requestedBreakpoint.column
    /\ a.requestedBreakpoint.condition = b.requestedBreakpoint.condition
    /\ a.requestedBreakpoint.logMessage = b.requestedBreakpoint.logMessage

NoDesired == [defined |-> FALSE, sub |-> 0, bps |-> <<>>]

NoRun ==
    [n |-> 0, pc |-> "none", desired |-> NoDesired, toDelete |-> <<>>,
     toKeep |-> <<>>, deletes |-> <<>>, toAdd |-> <<>>, adds |-> <<>>]

----------------------------------------------------------------------------
(* Remote collaborators *)

NoLocation == [line |-> NoPos, column |-> NoPos]

\* the answer of the source actor's getBreakpointPositions
BreakpointPositions ==
    { [line |-> 5, column |-> 0], [line |-> 5, column |-> 4],
      [line |-> 7, column |-> 2] }

Before(p, q) == (p.line < q.line) \/ (p.line = q.line /\ p.column <= q.column)

findNextBreakpointPosition(line, column, positions) ==
    LET cands == { p \in positions : Before([line |-> line, column |-> column], p) }
    IN  IF cands = {}
          THEN [line |-> line, column |-> column]
          ELSE CHOOSE p \in cands : \A q \in cands : Before(p, q)

\* what the legacy setBreakpoint may report as actualLocation
LegacyLocations(info) ==
    { NoLocation, [line |-> info.requestedBreakpoint.line + 1, column |-> 0] }

NoActor == 0 - 1           \* actorName === undefined

\* the name the legacy setBreakpoint gives the breakpoint actor of a location
BreakpointActor(info) ==
    10 * info.requestedBreakpoint.line + info.requestedBreakpoint.column + 1

----------------------------------------------------------------------------
(* The diff of syncBreakpoints *)

breakpointsToKeep(cur, des) ==
    LET Keep(c) == \E i \in 1..Len(des) : isEquivalent(des[i], c.breakpointInfo)
    IN  SelectSeq(cur, Keep)

\* a diff that compares positions only
DeleteByPosition(cur, des) ==
    LET Drop(c) == ~ \E i \in 1..Len(des) :
                       /\ des[i].requestedBreakpoint.line =
                             c.breakpointInfo.requestedBreakpoint.line
                       /\ des[i].requestedBreakpoint.column =
                             c.breakpointInfo.requestedBreakpoint.column
    IN  SelectSeq(cur, Drop)

breakpointsToDelete(cur, des) ==
    LET Drop(c) == ~ \E i \in 1..Len(des) : isEquivalent(des[i], c.breakpointInfo)
    IN  SelectSeq(cur, Drop)

\* a diff that adds every desired descriptor again
AddAllDesired(cur, des) == des

breakpointsToAdd(cur, des) ==
    LET Missing(d) == ~ \E i \in 1..Len(cur) : isEquivalent(d, cur[i].breakpointInfo)
    IN  SelectSeq(des, Missing)

\* a wait that continues with the first resolved promise
SomeResolved(st) == st = <<>> \/ \E i \in 1..Len(st) : st[i].status = "ok"

\* await Promise.all(promises) continues once every promise is resolved
AllResolved(st) == \A i \in 1..Len(st) : st[i].status = "ok"

Pending(n) ==
    [i \in 1..n |-> [status |-> "pending", actualLocation |-> NoLocation,
                     breakpointActor |-> NoActor]]

----------------------------------------------------------------------------
(* The state of one adapter, and the synchronous steps on it *)

AdapterState(s) ==
    [cur |-> currentBreakpoints[s], des |-> desiredBreakpoints[s],
     syncing |-> isSyncingBreakpoints[s], runs |-> activeRuns[s],
     ver |-> verified[s], log |-> runLog[s], applied |-> lastApplied[s],
     failed |-> lastFailed[s]]

\* a commit that keeps the in-flight flag in one place for all adapters
CommitShared(s, st) ==
    /\ currentBreakpoints' = [currentBreakpoints EXCEPT ![s] = st.cur]
    /\ desiredBreakpoints' = [desiredBreakpoints EXCEPT ![s] = st.des]
    /\ isSyncingBreakpoints' = [t \in adapters |-> st.syncing]
    /\ activeRuns' = [activeRuns EXCEPT ![s] = st.runs]
    /\ verified' = [verified EXCEPT ![s] = st.ver]
    /\ runLog' = [runLog EXCEPT ![s] = st.log]
    /\ lastApplied' = [lastApplied EXCEPT ![s] = st.applied]
    /\ lastFailed' = [lastFailed EXCEPT ![s] = st.failed]

Commit(s, st) ==
    /\ currentBreakpoints' = [currentBreakpoints EXCEPT ![s] = st.cur]
    /\ desiredBreakpoints' = [desiredBreakpoints EXCEPT ![s] = st.des]
    /\ isSyncingBreakpoints' = [isSyncingBreakpoints EXCEPT ![s] = st.syncing]
    /\ activeRuns' = [activeRuns EXCEPT ![s] = st.runs]
    /\ verified' = [verified EXCEPT ![s] = st.ver]
    /\ runLog' = [runLog EXCEPT ![s] = st.log]
    /\ lastApplied' = [lastApplied EXCEPT ![s] = st.applied]
    /\ lastFailed' = [lastFailed EXCEPT ![s] = st.failed]

Coordinator ==
    [threadState |-> threadState, queue |-> queue, running |-> running,
     ownPause |-> ownPause, pauseRequests |-> pauseRequests,
     resumeRequests |-> resumeRequests]

CommitCoordinator(co) ==
    /\ threadState' = co.threadState
    /\ queue' = co.queue
    /\ running' = co.running
    /\ ownPause' = co.ownPause
    /\ pauseRequests' = co.pauseRequests
    /\ resumeRequests' = co.resumeRequests

\* syncBreakpoints() from its call to its first await: set the flag, capture
\* and clear the pending set, partition the installed set, issue the deletes.
\* With no pending set, desiredBreakpoints.some / .filter throws a TypeError
\* and the returned promise is rejected with the flag left set.
SyncBreakpointsStart(st) ==
    IF ~ st.des.defined
      THEN [st EXCEPT !.syncing = TRUE,
                      !.failed = NoRun,
                      !.log = Append(@, [sub |-> 0, outcome |-> "crashed"])]
      ELSE LET del == breakpointsToDelete(st.cur, st.des.bps)
               run == [n |-> Len(st.log) + 1,
                       pc |-> "deleting",
                       desired |-> st.des,
                       toDelete |-> del,
                       toKeep |-> breakpointsToKeep(st.cur, st.des.bps),
                       deletes |-> Pending(Len(del)),
                       toAdd |-> <<>>,
                       adds |-> <<>>]
           IN  [st EXCEPT !.syncing = TRUE,
                          !.des = NoDesired,
                          !.runs = Append(@, run),
                          !.failed = NoRun,
                          !.log = Append(@, [sub |-> st.des.sub,
                                             outcome |-> "running"])]

\* ThreadCoordinator.runOnPausedThread(() => this.syncBreakpoints())
RunOnPausedThread(s, st, co) ==
    IF co.threadState = "Paused" /\ co.running = 0 /\ co.queue = <<>>
      THEN [st |-> SyncBreakpointsStart(st),
            co |-> [co EXCEPT !.running = IF st.des.defined THEN s ELSE 0]]
      ELSE [st |-> st,
            co |-> [co EXCEPT !.queue = Append(@, s),
                              !.threadState = IF @ = "Running" THEN "Pausing" ELSE @,
                              !.ownPause = IF co.threadState = "Running"
                                             THEN TRUE ELSE @,
                              !.pauseRequests = IF co.threadState = "Running"
                                                  THEN @ + 1 ELSE @]]

ShouldSync(st) == st.des.defined /\ ~ st.syncing

\* a variant that calls syncBreakpoints() directly for either protocol
SyncWithoutPause(s, st, co) ==
    IF ShouldSync(st)
      THEN [st |-> SyncBreakpointsStart(st), co |-> co]
      ELSE [st |-> st, co |-> co]

checkAndSyncBreakpoints(s, st, co) ==
    IF ShouldSync(st)
      THEN IF newBreakpointProtocol
             THEN [st |-> SyncBreakpointsStart(st), co |-> co]
             ELSE RunOnPausedThread(s, st, co)
      ELSE [st |-> st, co |-> co]

\* the action the coordinator was running has settled
ActionSettled(s, co) == [co EXCEPT !.running = IF @ = s THEN 0 ELSE @]

RemoveAt(seq, k) == [i \in 1..(Len(seq) - 1) |-> IF i < k THEN seq[i] ELSE seq[i + 1]]

SetOutcome(log, n, o) == [log EXCEPT ![n].outcome = o]

----------------------------------------------------------------------------
(* parseConfiguration *)

\* Strings are sequences of tokens; each delimiter is a token of its own.
\* An optional string that is undefined or '' (both falsy) is <<>>.
Undefined == <<>>

Truthy(str) == str # <<>>

Delimiters == { "/", "\\", ":", "#", "?", " " }

IsWord(token) == token \notin Delimiters

\* path.isAbsolute of the platform
pathIsAbsolute(p, platform) ==
    IF platform = "win32"
      THEN /\ Len(p) > 0
           /\ \/ p[1] \in {"/", "\\"}
              \/ Len(p) >= 3 /\ IsWord(p[1]) /\ p[2] = ":" /\ p[3] \in {"/", "\\"}
      ELSE Len(p) > 0 /\ p[1] = "/"

\* isAbsoluteUrl: the string starts with a scheme and a colon
isAbsoluteUrl(str) == Len(str) >= 2 /\ IsWord(str[1]) /\ str[2] = ":"

Thrown(message) == [state |-> "thrown", error |-> message]

ErrExecutableConfigured == "Couldn't find the Firefox executable. Please correct the path given in your launch configuration."
ErrExecutable == "Couldn't find the Firefox executable. Please specify the path by setting \"firefoxExecutable\" in your launch configuration."
ErrProfileBoth == "You can set either \"profile\" or \"profileDir\", but not both"
ErrProfileFinder == "rejected by FirefoxProfile.Finder"
ErrKeepProfile == "To enable \"keepProfileChanges\" you need to set either \"profile\" or \"profileDir\""
ErrFileAbsolute == "The \"file\" property in the launch configuration has to be an absolute path"
ErrNoTarget == "You need to set either \"file\" or \"url\" in the launch configuration"
ErrAddonId == "rejected by findAddonId"
ErrUrlNeedsWebRoot == "If you set \"url\" you also have to set \"webRoot\" or \"pathMappings\""
ErrWebRootAbsolute == "The \"webRoot\" property has to be an absolute path"
ErrWebRootNeedsUrl == "If you set \"webRoot\" you also have to set \"url\""

TmpProfileDir == <<"/", "tmp", "/", "vscode-firefox-debug-profile">>
FoundProfileDir == <<"/", "home", "/", "profiles", "/", "dev">>
FoundExecutable == <<"/", "usr", "/", "bin", "/", "firefox">>

findFirefoxExecutable(configuredPath, e) ==
    IF Truthy(configuredPath)
      THEN IF e.isExecutable
             THEN [state |-> "ok", path |-> configuredPath]
             ELSE Thrown(ErrExecutableConfigured)
      ELSE IF e.isExecutable
             THEN [state |-> "ok", path |-> FoundExecutable]
             ELSE Thrown(ErrExecutable)

\* a profile configuration in which profileDir overrides profile
ProfileDirWins(c, e) ==
    LET src == IF Truthy(c.profileDir) THEN c.profileDir
               ELSE IF Truthy(c.profile) /\ e.profileFound THEN FoundProfileDir
               ELSE Undefined
    IN  IF c.keepProfileChanges
          THEN [state |-> "ok", profileDir |-> src, srcProfileDir |-> Undefined]
          ELSE [state |-> "ok", profileDir |-> TmpProfileDir, srcProfileDir |-> src]

parseProfileConfiguration(c, e) ==
    IF Truthy(c.profileDir) /\ Truthy(c.profile)
      THEN Thrown(ErrProfileBoth)
    ELSE IF ~ Truthy(c.profileDir) /\ Truthy(c.profile) /\ ~ e.profileFound
      THEN Thrown(ErrProfileFinder)
    ELSE
      LET src == IF Truthy(c.profileDir) THEN c.profileDir
                 ELSE IF Truthy(c.profile) THEN FoundProfileDir
                 ELSE Undefined
      IN  IF c.keepProfileChanges
            THEN IF Truthy(src)
                   THEN [state |-> "ok", profileDir |-> src,
                         srcProfileDir |-> Undefined]
                   ELSE Thrown(ErrKeepProfile)
            ELSE [state |-> "ok", profileDir |-> TmpProfileDir,
                  srcProfileDir |-> src]

\* the last argument given to Firefox: what the browser opens
LaunchTarget(c, e) ==
    IF Truthy(c.file)
      THEN IF ~ pathIsAbsolute(c.file, e.platform)
             THEN Thrown(ErrFileAbsolute)
             ELSE [state |-> "ok",
                   arg |-> IF e.platform = "win32"
                             THEN <<"file", ":", "/", "/", "/">> \o
                                  [i \in 1..Len(c.file) |->
                                      IF c.file[i] = "\\" THEN "/" ELSE c.file[i]]
                             ELSE <<"file", ":", "/", "/">> \o c.file]
    ELSE IF Truthy(c.url) THEN [state |-> "ok", arg |-> c.url]
    ELSE IF Truthy(c.addonPath) THEN [state |-> "ok", arg |-> <<"about", ":", "blank">>]
    ELSE Thrown(ErrNoTarget)

parseWebRootConfiguration(c, e) ==
    IF Truthy(c.url)
      THEN IF ~ Truthy(c.webRoot)
             THEN IF ~ c.pathMappings
                    THEN Thrown(ErrUrlNeedsWebRoot)
                    ELSE [state |-> "ok", webRoot |-> Undefined]
           ELSE IF ~ pathIsAbsolute(c.webRoot, e.platform) /\ ~ isAbsoluteUrl(c.webRoot)
             THEN Thrown(ErrWebRootAbsolute)
             ELSE [state |-> "ok", webRoot |-> c.webRoot]
    ELSE IF Truthy(c.webRoot)
      THEN Thrown(ErrWebRootNeedsUrl)
      ELSE [state |-> "ok", webRoot |-> Undefined]

\* the launch branch of parseConfiguration, up to the launch description
ParseLaunch(c, e) ==
    LET exe == findFirefoxExecutable(c.firefoxExecutable, e)
        prof == parseProfileConfiguration(c, e)
        target == LaunchTarget(c, e)
    IN  IF exe.state = "thrown" THEN exe
        ELSE IF prof.state = "thrown" THEN prof
        ELSE IF target.state = "thrown" THEN target
        ELSE [state |-> "ok",
              launch |-> [firefoxExecutable |-> exe.path,
                          profileDir |-> prof.profileDir,
                          srcProfileDir |-> prof.srcProfileDir,
                          target |-> target.arg,
                          detached |-> c.reAttach]]

NoLaunch ==
    [firefoxExecutable |-> Undefined, profileDir |-> Undefined,
     srcProfileDir |-> Undefined, target |-> Undefined, detached |-> FALSE]

parseConfiguration(c, e) ==
    LET l == IF c.request = "launch" THEN ParseLaunch(c, e)
                                     ELSE [state |-> "ok", launch |-> NoLaunch]
        w == parseWebRootConfiguration(c, e)
    IN  IF l.state = "thrown" THEN l
        ELSE IF Truthy(c.addonPath) /\ ~ e.addonIdFound THEN Thrown(ErrAddonId)
        ELSE IF w.state = "thrown" THEN w
        ELSE [state |-> "parsed",
              error |-> "",
              attach |-> (c.request = "attach" \/ c.reAttach),
              launch |-> (c.request = "launch"),
              launchConfiguration |-> l.launch,
              addon |-> Truthy(c.addonPath),
              webRoot |-> w.webRoot]

NotParsed == [state |-> "none", error |-> ""]

\* the values the optional strings of a configuration take
AbsolutePath == <<"/", "srv", "/", "www">>
RelativePath == <<"www">>
DrivePath == <<"C", ":", "\\", "www">>
PageUrl == <<"http", ":", "/", "/", "localhost", "/", "index.html">>

Configurations ==
    { c \in [request : {"launch", "attach"},
             file : {Undefined, AbsolutePath, RelativePath, DrivePath},
             url : {Undefined, PageUrl},
             addonPath : {Undefined, AbsolutePath},
             firefoxExecutable : {Undefined, FoundExecutable},
             profile : {Undefined, <<"dev">>},
             profileDir : {Undefined, AbsolutePath},
             keepProfileChanges : BOOLEAN,
             reAttach : BOOLEAN,
             webRoot : {Undefined, AbsolutePath, RelativePath, PageUrl},
             pathMappings : BOOLEAN] :
        c.request = "attach" =>
            /\ c.file = Undefined /\ c.profile = Undefined
            /\ c.profileDir = Undefined /\ ~ c.keepProfileChanges
            /\ c.firefoxExecutable = Undefined /\ ~ c.reAttach }

Environments ==
    [platform : {"linux", "win32"}, isExecutable : BOOLEAN,
     profileFound : BOOLEAN, addonIdFound : BOOLEAN]

NoConfiguration ==
    [request |-> "attach", file |-> Undefined, url |-> Undefined,
     addonPath |-> Undefined, firefoxExecutable |-> Undefined,
     profile |-> Undefined, profileDir |-> Undefined,
     keepProfileChanges |-> FALSE, reAttach |-> FALSE, webRoot |-> Undefined,
     pathMappings |-> FALSE]

NoEnvironment ==
    [platform |-> "linux", isExecutable |-> TRUE, profileFound |-> TRUE,
     addonIdFound |-> TRUE]

----------------------------------------------------------------------------
(* createSource *)

Some(str) == [defined |-> TRUE, value |-> str]
None == [defined |-> FALSE, value |-> <<>>]

Digits == { "0", "1", "2", "3", "4", "5", "6", "7", "8", "9" }

\* str.split(delim).pop()
LastPart(str, delim) ==
    LET at == { i \in 1..Len(str) : str[i] = delim }
        last == IF at = {} THEN 0 ELSE CHOOSE i \in at : \A j \in at : j <= i
    IN  SubSeq(str, last + 1, Len(str))

\* str.split(delim)[0]
FirstPart(str, delim) ==
    LET at == { i \in 1..Len(str) : str[i] = delim }
        first == IF at = {} THEN Len(str) + 1
                 ELSE CHOOSE i \in at : \A j \in at : i <= j
    IN  SubSeq(str, 1, first - 1)

\* actorIdRegex.exec(name): the digits the name ends in, <<>> without a match
TrailingDigits(name) ==
    LET starts == { i \in 1..(Len(name) + 1) :
                      \A j \in i..Len(name) : name[j] \in Digits }
        start == CHOOSE i \in starts : \A j \in starts : i <= j
    IN  SubSeq(name, start, Len(name))

sourceName(actor) ==
    IF actor.url.defined
      THEN FirstPart(LastPart(actor.url.value, "/"), "#")
      ELSE IF TrailingDigits(actor.name) # <<>>
             THEN (IF Truthy(actor.introductionType) THEN actor.introductionType
                                                     ELSE <<"Script">>)
                  \o <<" ">> \o TrailingDigits(actor.name)
             ELSE <<>>

createSource(actor, sourcePath, id) ==
    [name |-> sourceName(actor),
     path |-> IF sourcePath.defined THEN sourcePath
              ELSE IF actor.url.defined /\ Truthy(actor.url.value) THEN actor.url
              ELSE None,
     sourceReference |-> IF sourcePath.defined THEN 0 ELSE id,
     presentationHint |-> IF actor.isBlackBoxed THEN "deemphasize" ELSE "undefined"]

NoSource ==
    [name |-> <<>>, path |-> None, sourceReference |-> 0 - 1,
     presentationHint |-> "undefined"]

ScriptUrl == <<"http", ":", "/", "/", "localhost", "/", "js", "/", "app.js">>

ActorUrls ==
    { None, Some(<<>>), Some(ScriptUrl),
      Some(ScriptUrl \o <<"?", "v=1">>),
      Some(ScriptUrl \o <<"#", "top">>),
      Some(<<"http", ":", "/", "/", "localhost", "/">>) }

ActorNameStrings ==
    { <<"server1.conn0.source", "2", "5">>, <<"server1.conn0.source", "7">>,
      <<"server1.conn0.source">> }

SourceArguments ==
    [actor : [url : ActorUrls, name : ActorNameStrings,
              introductionType : {Undefined, <<"eval">>},
              isBlackBoxed : BOOLEAN],
     sourcePath : {None, Some(<<"/", "srv", "/", "www", "/", "app.js">>)},
     id : {1, 2}]

NoSourceArguments ==
    [actor |-> [url |-> None, name |-> <<>>, introductionType |-> Undefined,
                isBlackBoxed |-> FALSE],
     sourcePath |-> None, id |-> 0]

\* no session start-up is modelled
NoStartup ==
    /\ config = NoConfiguration
    /\ env = NoEnvironment
    /\ parsed = NotParsed
    /\ sourceArgs = NoSourceArguments
    /\ source = NoSource

----------------------------------------------------------------------------
(* The log expression of a modern add *)

MaxParts == 3      \* number of parts of the longest log message

\* String.prototype.replace with a string pattern of one token: the first
\* occurrence is replaced, a string without the pattern is returned as it is
replace(str, pattern, replacement) ==
    LET hits == { i \in 1..Len(str) : str[i] = pattern }
    IN  IF hits = {} THEN str
        ELSE LET first == CHOOSE i \in hits : \A j \in hits : i <= j
             IN  SubSeq(str, 1, first - 1) \o replacement
                    \o SubSeq(str, first + 1, Len(str))

\* the token of the template literal delimiter, the character U+0060
Backtick == "backtick"

\* the logValue of syncBreakpoints; undefined for a falsy logMessage
LogValue(message) ==
    IF Truthy(message)
      THEN Some(<<Backtick>> \o replace(message, "{", <<"$", "{">>) \o <<Backtick>>)
      ELSE None

\* the parts of a log message: text and {expr} placeholders
Parts == { <<"hit">>, <<" ">>, <<"{", "x", "}">>, <<"{", "y", "}">> }

RECURSIVE Concatenations(_)
Concatenations(n) ==
    IF n = 0 THEN { <<>> }
    ELSE { m \o part : m \in Concatenations(n - 1), part \in Parts }

\* the log messages of up to MaxParts parts; <<>> is also no log message
Messages == UNION { Concatenations(n) : n \in 0..MaxParts }

NoRequest ==
    /\ logMessage = Undefined
    /\ logValue = <<>>

----------------------------------------------------------------------------
(* Initial state: after the constructor *)

\* the fields of the adapters and of the coordinator after construction
Constructed ==
    /\ currentBreakpoints = [s \in adapters |-> <<>>]
    /\ desiredBreakpoints = [s \in adapters |-> NoDesired]
    /\ isSyncingBreakpoints = [s \in adapters |-> FALSE]
    /\ activeRuns = [s \in adapters |-> <<>>]
    /\ verified = [s \in adapters |-> <<>>]
    /\ queue = <<>>
    /\ running = 0
    /\ ownPause = FALSE
    /\ pauseRequests = 0
    /\ resumeRequests = 0
    /\ disposed = [s \in adapters |-> FALSE]
    /\ found = <<>>
    /\ nsub = 0
    /\ lastSubmitted = [s \in adapters |-> NoDesired]
    /\ runLog = [s \in adapters |-> <<>>]
    /\ overwritten = {}
    /\ backToBack = [s \in adapters |-> FALSE]
    /\ lastApplied = [s \in adapters |-> NoDesired]
    /\ lastFailed = [s \in adapters |-> NoRun]

\* one adapter of either protocol; the editor's breakpoints differ in their
\* condition; the thread runs or (legacy) is already paused
Init ==
    /\ newBreakpointProtocol \in BOOLEAN
    /\ pool = {Base, [Base EXCEPT !.condition = "x>1"]}
    /\ adapters = {1}
    /\ threadState \in IF newBreakpointProtocol THEN {"Running"}
                                                ELSE {"Running", "Paused"}
    /\ Constructed
    /\ NoStartup
    /\ NoRequest

\* one adapter of either protocol; the editor's breakpoints differ in any one
\* field; the thread of a legacy adapter is already paused
InitFields ==
    /\ newBreakpointProtocol \in BOOLEAN
    /\ pool \in Pools
    /\ adapters = {1}
    /\ threadState = IF newBreakpointProtocol THEN "Running" ELSE "Paused"
    /\ Constructed
    /\ NoStartup
    /\ NoRequest

----------------------------------------------------------------------------
(* Operations *)

\* the latest submission is still pending or its run is still executing
Unreconciled(s) ==
    /\ lastSubmitted[s].defined
    /\ \/ desiredBreakpoints[s].sub = lastSubmitted[s].sub
       \/ \E k \in 1..Len(activeRuns[s]) :
              activeRuns[s][k].desired.sub = lastSubmitted[s].sub

\* a submission that is merged into the set still pending
MergedPending(old, sub, bps) ==
    [defined |-> TRUE, sub |-> sub, bps |-> old.bps \o bps]

NewPending(old, sub, bps) == [defined |-> TRUE, sub |-> sub, bps |-> bps]

updateBreakpoints(s, bps) ==
    LET old == desiredBreakpoints[s]
        des == NewPending(old, nsub + 1, bps)
        r == checkAndSyncBreakpoints(s, [AdapterState(s) EXCEPT !.des = des,
                                                                !.ver = <<>>],
                                     Coordinator)
    IN  /\ nsub < MaxSubmits
        /\ nsub' = nsub + 1
        /\ lastSubmitted' = [lastSubmitted EXCEPT ![s] =
                                [defined |-> TRUE, sub |-> nsub + 1, bps |-> bps]]
        /\ overwritten' = IF old.defined THEN overwritten \cup {old.sub}
                                         ELSE overwritten
        /\ backToBack' = [backToBack EXCEPT ![s] = Unreconciled(s)]
        /\ Commit(s, r.st)
        /\ CommitCoordinator(r.co)
        /\ UNCHANGED <<startupVars, requestVars, found, newBreakpointProtocol, pool, adapters, disposed>>

\* the rejection of an awaited Promise.all: the rest of syncBreakpoints is
\* skipped, the flag stays set and currentBreakpoints is not written
Reject(s, k, run, why) ==
    LET st == AdapterState(s)
    IN  /\ Commit(s, [st EXCEPT !.runs = RemoveAt(@, k),
                                !.ver = <<>>,
                                !.log = SetOutcome(@, run.n, why),
                                !.failed = run])
        /\ CommitCoordinator(ActionSettled(s, Coordinator))
        /\ UNCHANGED <<startupVars, requestVars, found, newBreakpointProtocol, pool, adapters, disposed,
                       nsub, lastSubmitted, overwritten, backToBack>>

UpdateRun(s, k, run) ==
    /\ activeRuns' = [activeRuns EXCEPT ![s][k] = run]
    /\ verified' = [verified EXCEPT ![s] = <<>>]
    /\ UNCHANGED <<startupVars, requestVars, found, newBreakpointProtocol, pool, adapters, currentBreakpoints,
                   desiredBreakpoints, isSyncingBreakpoints,
                   threadState, queue, running, ownPause, pauseRequests,
                   resumeRequests, disposed,
                   nsub, lastSubmitted, runLog, overwritten, backToBack,
                   lastApplied, lastFailed>>

DeleteResolves(s, k, i) ==
    LET run == activeRuns[s][k]
    IN  /\ run.pc = "deleting"
        /\ run.deletes[i].status = "pending"
        /\ UpdateRun(s, k, [run EXCEPT !.deletes[i].status = "ok"])

DeleteRejects(s, k, i) ==
    LET run == activeRuns[s][k]
    IN  /\ run.pc = "deleting"
        /\ run.deletes[i].status = "pending"
        /\ Reject(s, k, [run EXCEPT !.deletes[i].status = "failed"], "deleteFailed")

\* the continuation after `await Promise.all(deletionPromises)`
DeletionsDone(s, k) ==
    LET run == activeRuns[s][k]
        add == breakpointsToAdd(currentBreakpoints[s], run.desired.bps)
    IN  /\ run.pc = "deleting"
        /\ AllResolved(run.deletes)
        /\ UpdateRun(s, k,
             IF newBreakpointProtocol
               THEN [run EXCEPT !.pc = "positions", !.toAdd = add]
               ELSE [run EXCEPT !.pc = "adding", !.toAdd = add,
                                !.adds = Pending(Len(add))])

\* modern: resolve the position of one descriptor before its setBreakpoint
Resolve(info) ==
    LET loc == findNextBreakpointPosition(
                   info.requestedBreakpoint.line,
                   IF info.requestedBreakpoint.column = NoColumn
                     THEN 0 ELSE info.requestedBreakpoint.column,
                   BreakpointPositions)
    IN  [info EXCEPT !.actualLine = loc.line, !.actualColumn = loc.column]

PositionsResolve(s, k) ==
    LET run == activeRuns[s][k]
    IN  /\ run.pc = "positions"
        /\ UpdateRun(s, k,
             [run EXCEPT !.pc = "adding",
                         !.toAdd = [i \in 1..Len(run.toAdd) |-> Resolve(run.toAdd[i])],
                         !.adds = Pending(Len(run.toAdd))])

PositionsReject(s, k) ==
    /\ activeRuns[s][k].pc = "positions"
    /\ Reject(s, k, activeRuns[s][k], "positionsFailed")

AddResolves(s, k, i) ==
    LET run == activeRuns[s][k]
    IN  /\ run.pc = "adding"
        /\ run.adds[i].status = "pending"
        /\ \E loc \in IF newBreakpointProtocol THEN {NoLocation}
                                               ELSE LegacyLocations(run.toAdd[i]) :
             UpdateRun(s, k, [run EXCEPT !.adds[i] =
                                 [status |-> "ok", actualLocation |-> loc,
                                  breakpointActor |->
                                      IF newBreakpointProtocol THEN NoActor
                                      ELSE BreakpointActor(run.toAdd[i])]])

AddRejects(s, k, i) ==
    LET run == activeRuns[s][k]
    IN  /\ run.pc = "adding"
        /\ run.adds[i].status = "pending"
        /\ Reject(s, k, [run EXCEPT !.adds[i].status = "failed"], "addFailed")

\* a verification that always reports the requested position
VerifyRequested(run, i) ==
    [breakpointInfo |-> run.toAdd[i],
     line |-> run.toAdd[i].requestedBreakpoint.line,
     column |-> run.toAdd[i].requestedBreakpoint.column]

\* the verifyBreakpoint call made for the i-th added breakpoint
Verification(run, i) ==
    LET info == run.toAdd[i]
        loc == run.adds[i].actualLocation
    IN  IF newBreakpointProtocol
          THEN [breakpointInfo |-> info,
                line |-> info.actualLine, column |-> info.actualColumn]
          ELSE [breakpointInfo |-> info,
                line |-> IF loc # NoLocation THEN loc.line
                                             ELSE info.requestedBreakpoint.line,
                column |-> IF loc # NoLocation THEN loc.column
                                               ELSE info.requestedBreakpoint.column]

addedBreakpoints(run) ==
    [i \in 1..Len(run.toAdd) |->
        [breakpointInfo |-> run.toAdd[i],
         actorName |-> run.adds[i].breakpointActor]]

NewCurrent(run) == run.toKeep \o addedBreakpoints(run)

\* the continuation after `await Promise.all(additionPromises)` up to the end
\* of syncBreakpoints, the trailing checkAndSyncBreakpoints() included
AdditionsDone(s, k) ==
    LET st == AdapterState(s)
        run == st.runs[k]
        done == [st EXCEPT !.cur = NewCurrent(run),
                           !.syncing = FALSE,
                           !.runs = RemoveAt(@, k),
                           !.ver = [i \in 1..Len(run.toAdd) |-> Verification(run, i)],
                           !.log = SetOutcome(@, run.n, "completed"),
                           !.applied = run.desired]
        r == checkAndSyncBreakpoints(s, done, Coordinator)
    IN  /\ run.pc = "adding"
        /\ AllResolved(run.adds)
        /\ Commit(s, r.st)
        /\ CommitCoordinator(ActionSettled(s, r.co))
        /\ UNCHANGED <<startupVars, requestVars, found, newBreakpointProtocol, pool, adapters, disposed,
                       nsub, lastSubmitted, overwritten, backToBack>>

\* Array.prototype.find: the first of the elements that pass the test (hits),
\* or undefined
NoAdapter == [breakpointInfo |-> BreakpointInfo(NoLocation), actorName |-> NoActor]

Find(seq, hits) ==
    IF hits = {} THEN NoAdapter
    ELSE seq[CHOOSE i \in hits : \A j \in hits : i <= j]

findBreakpointAdapterForActorName(s, actorName) ==
    LET cur == currentBreakpoints[s]
    IN  Find(cur, { i \in 1..Len(cur) : cur[i].actorName = actorName })

findBreakpointAdapterForLocation(s, location) ==
    LET cur == currentBreakpoints[s]
    IN  Find(cur, { i \in 1..Len(cur) :
                      /\ cur[i].breakpointInfo.actualLine = location.line
                      /\ cur[i].breakpointInfo.actualColumn = location.column })

\* the actor names and the locations a lookup may be called with
ActorNames == { BreakpointActor(BreakpointInfo(d)) : d \in pool }

Locations == BreakpointPositions \cup { NoLocation }

\* the two lookups return what they find and write no field
LookupActorName(s, actorName) ==
    /\ found' = << findBreakpointAdapterForActorName(s, actorName) >>
    /\ UNCHANGED <<startupVars, requestVars, newBreakpointProtocol, pool, adapters,
                   currentBreakpoints, desiredBreakpoints, isSyncingBreakpoints,
                   activeRuns, verified, threadState, queue, running, ownPause,
                   pauseRequests, resumeRequests, disposed,
                   nsub, lastSubmitted, runLog, overwritten, backToBack,
                   lastApplied, lastFailed>>

LookupLocation(s, location) ==
    /\ found' = << findBreakpointAdapterForLocation(s, location) >>
    /\ UNCHANGED <<startupVars, requestVars, newBreakpointProtocol, pool, adapters,
                   currentBreakpoints, desiredBreakpoints, isSyncingBreakpoints,
                   activeRuns, verified, threadState, queue, running, ownPause,
                   pauseRequests, resumeRequests, disposed,
                   nsub, lastSubmitted, runLog, overwritten, backToBack,
                   lastApplied, lastFailed>>

\* a dispose that also empties the installed set
DisposeClears(s) ==
    /\ ~ disposed[s]
    /\ disposed' = [disposed EXCEPT ![s] = TRUE]
    /\ currentBreakpoints' = [currentBreakpoints EXCEPT ![s] = <<>>]
    /\ UNCHANGED <<startupVars, requestVars, found, newBreakpointProtocol, pool, adapters,
                   desiredBreakpoints, isSyncingBreakpoints, activeRuns,
                   verified, threadState, queue, running, ownPause,
                   pauseRequests, resumeRequests,
                   nsub, lastSubmitted, runLog, overwritten, backToBack,
                   lastApplied, lastFailed>>

\* dispose() only disposes the source actor
dispose(s) ==
    /\ ~ disposed[s]
    /\ disposed' = [disposed EXCEPT ![s] = TRUE]
    /\ UNCHANGED <<startupVars, requestVars, found, newBreakpointProtocol, pool, adapters,
                   currentBreakpoints,
                   desiredBreakpoints, isSyncingBreakpoints, activeRuns,
                   verified, threadState, queue, running, ownPause,
                   pauseRequests, resumeRequests,
                   nsub, lastSubmitted, runLog, overwritten, backToBack,
                   lastApplied, lastFailed>>

----------------------------------------------------------------------------
(* The pause coordinator of the thread (legacy protocol) *)

UnchangedByCoordinator ==
    UNCHANGED <<startupVars, requestVars, found, newBreakpointProtocol, pool, adapters, disposed, nsub,
                lastSubmitted, overwritten, backToBack>>

PauseConfirmed ==
    /\ threadState = "Pausing"
    /\ threadState' = "Paused"
    /\ UNCHANGED <<queue, running, ownPause, pauseRequests, resumeRequests,
                   currentBreakpoints,
                   desiredBreakpoints, isSyncingBreakpoints, activeRuns,
                   verified, runLog, lastApplied, lastFailed>>
    /\ UnchangedByCoordinator

RunQueuedAction ==
    /\ threadState = "Paused"
    /\ running = 0
    /\ queue # <<>>
    /\ LET s == Head(queue)
           st == [AdapterState(s) EXCEPT !.ver = <<>>]
       IN  /\ Commit(s, SyncBreakpointsStart(st))
           /\ CommitCoordinator([Coordinator EXCEPT
                  !.queue = Tail(@),
                  !.running = IF st.des.defined THEN s ELSE 0])
    /\ UnchangedByCoordinator

ResumeThread ==
    /\ threadState = "Paused"
    /\ running = 0
    /\ queue = <<>>
    /\ ownPause
    /\ threadState' = "Resuming"
    /\ resumeRequests' = resumeRequests + 1
    /\ UNCHANGED <<queue, running, ownPause, pauseRequests, currentBreakpoints,
                   desiredBreakpoints, isSyncingBreakpoints, activeRuns,
                   verified, runLog, lastApplied, lastFailed>>
    /\ UnchangedByCoordinator

ResumeConfirmed ==
    /\ threadState = "Resuming"
    /\ threadState' = IF queue = <<>> THEN "Running" ELSE "Pausing"
    /\ ownPause' = (queue # <<>>)
    /\ pauseRequests' = IF queue = <<>> THEN pauseRequests ELSE pauseRequests + 1
    /\ UNCHANGED <<queue, running, resumeRequests, currentBreakpoints,
                   desiredBreakpoints, isSyncingBreakpoints, activeRuns,
                   verified, runLog, lastApplied, lastFailed>>
    /\ UnchangedByCoordinator

----------------------------------------------------------------------------

Next ==
    \/ \E s \in adapters : \E bps \in DesiredArrays(pool) : updateBreakpoints(s, bps)
    \/ \E s \in adapters : \E k \in 1..Len(activeRuns[s]) :
          \E i \in 1..Len(activeRuns[s][k].deletes) : DeleteResolves(s, k, i)
    \/ \E s \in adapters : \E k \in 1..Len(activeRuns[s]) :
          \E i \in 1..Len(activeRuns[s][k].deletes) : DeleteRejects(s, k, i)
    \/ \E s \in adapters : \E k \in 1..Len(activeRuns[s]) : DeletionsDone(s, k)
    \/ \E s \in adapters : \E k \in 1..Len(activeRuns[s]) : PositionsResolve(s, k)
    \/ \E s \in adapters : \E k \in 1..Len(activeRuns[s]) : PositionsReject(s, k)
    \/ \E s \in adapters : \E k \in 1..Len(activeRuns[s]) :
          \E i \in 1..Len(activeRuns[s][k].adds) : AddResolves(s, k, i)
    \/ \E s \in adapters : \E k \in 1..Len(activeRuns[s]) :
          \E i \in 1..Len(activeRuns[s][k].adds) : AddRejects(s, k, i)
    \/ \E s \in adapters : \E k \in 1..Len(activeRuns[s]) : AdditionsDone(s, k)
    \/ PauseConfirmed
    \/ RunQueuedAction
    \/ ResumeThread
    \/ ResumeConfirmed

Spec == Init /\ [][Next]_vars

\* the steps possible while the thread stays paused
NextFields ==
    \/ \E s \in adapters : \E bps \in DesiredArrays(pool) : updateBreakpoints(s, bps)
    \/ \E s \in adapters : \E k \in 1..Len(activeRuns[s]) :
          \E i \in 1..Len(activeRuns[s][k].deletes) : DeleteResolves(s, k, i)
    \/ \E s \in adapters : \E k \in 1..Len(activeRuns[s]) :
          \E i \in 1..Len(activeRuns[s][k].deletes) : DeleteRejects(s, k, i)
    \/ \E s \in adapters : \E k \in 1..Len(activeRuns[s]) : DeletionsDone(s, k)
    \/ \E s \in adapters : \E k \in 1..Len(activeRuns[s]) : PositionsResolve(s, k)
    \/ \E s \in adapters : \E k \in 1..Len(activeRuns[s]) : PositionsReject(s, k)
    \/ \E s \in adapters : \E k \in 1..Len(activeRuns[s]) :
          \E i \in 1..Len(activeRuns[s][k].adds) : AddResolves(s, k, i)
    \/ \E s \in adapters : \E k \in 1..Len(activeRuns[s]) :
          \E i \in 1..Len(activeRuns[s][k].adds) : AddRejects(s, k, i)
    \/ \E s \in adapters : \E k \in 1..Len(activeRuns[s]) : AdditionsDone(s, k)
    \/ RunQueuedAction

SpecFields == InitFields /\ [][NextFields]_vars

\* one adapter that may be disposed at any time
InitDispose ==
    /\ newBreakpointProtocol \in BOOLEAN
    /\ pool = {Base, [Base EXCEPT !.line = 6]}
    /\ adapters = {1}
    /\ threadState = IF newBreakpointProtocol THEN "Running" ELSE "Paused"
    /\ Constructed
    /\ NoStartup
    /\ NoRequest

NextDispose ==
    \/ NextFields
    \/ \E s \in adapters : dispose(s)

SpecDispose == InitDispose /\ [][NextDispose]_vars

\* one adapter on which the runtime's event handling looks breakpoints up;
\* the editor submits arrays without equivalent descriptors
DistinctArrays(p) ==
    { arr \in DesiredArrays(p) :
        \A i, j \in 1..Len(arr) : i # j => ~ isEquivalent(arr[i], arr[j]) }

NextLookup ==
    \/ \E s \in adapters : \E bps \in DistinctArrays(pool) : updateBreakpoints(s, bps)
    \/ \E s \in adapters : \E k \in 1..Len(activeRuns[s]) :
          \E i \in 1..Len(activeRuns[s][k].deletes) : DeleteResolves(s, k, i)
    \/ \E s \in adapters : \E k \in 1..Len(activeRuns[s]) :
          \E i \in 1..Len(activeRuns[s][k].deletes) : DeleteRejects(s, k, i)
    \/ \E s \in adapters : \E k \in 1..Len(activeRuns[s]) : DeletionsDone(s, k)
    \/ \E s \in adapters : \E k \in 1..Len(activeRuns[s]) : PositionsResolve(s, k)
    \/ \E s \in adapters : \E k \in 1..Len(activeRuns[s]) : PositionsReject(s, k)
    \/ \E s \in adapters : \E k \in 1..Len(activeRuns[s]) :
          \E i \in 1..Len(activeRuns[s][k].adds) : AddResolves(s, k, i)
    \/ \E s \in adapters : \E k \in 1..Len(activeRuns[s]) :
          \E i \in 1..Len(activeRuns[s][k].adds) : AddRejects(s, k, i)
    \/ \E s \in adapters : \E k \in 1..Len(activeRuns[s]) : AdditionsDone(s, k)
    \/ RunQueuedAction
    \/ \E s \in adapters : dispose(s)
    \/ \E s \in adapters : \E a \in ActorNames : LookupActorName(s, a)
    \/ \E s \in adapters : \E l \in Locations : LookupLocation(s, l)

SpecLookup == InitDispose /\ [][NextLookup]_vars

\* the fields of an adapter that the session start-up leaves alone
AdapterVars ==
    <<newBreakpointProtocol, pool, adapters, currentBreakpoints,
      desiredBreakpoints, isSyncingBreakpoints, activeRuns, verified,
      threadState, queue, running, ownPause, pauseRequests, resumeRequests,
      disposed, found, nsub, lastSubmitted, runLog, overwritten, backToBack,
      lastApplied, lastFailed>>

IdleAdapter ==
    /\ newBreakpointProtocol = TRUE
    /\ pool = {Base}
    /\ adapters = {1}
    /\ threadState = "Running"
    /\ Constructed

\* the start of a session: any configuration on any machine
InitConfig ==
    /\ config \in Configurations
    /\ env \in Environments
    /\ parsed = NotParsed
    /\ sourceArgs = NoSourceArguments
    /\ source = NoSource
    /\ NoRequest
    /\ IdleAdapter

ParseConfiguration ==
    /\ parsed.state = "none"
    /\ parsed' = parseConfiguration(config, env)
    /\ UNCHANGED <<config, env, sourceArgs, source, requestVars, AdapterVars>>

SpecConfig == InitConfig /\ [][ParseConfiguration]_vars

\* the construction of an adapter for any source actor
InitSource ==
    /\ config = NoConfiguration
    /\ env = NoEnvironment
    /\ parsed = NotParsed
    /\ sourceArgs \in SourceArguments
    /\ source = NoSource
    /\ NoRequest
    /\ IdleAdapter

CreateSource ==
    /\ source = NoSource
    /\ source' = createSource(sourceArgs.actor, sourceArgs.sourcePath, sourceArgs.id)
    /\ UNCHANGED <<config, env, parsed, sourceArgs, requestVars, AdapterVars>>

SpecSource == InitSource /\ [][CreateSource]_vars

\* a modern adapter adds a breakpoint with any log message
InitLog ==
    /\ logMessage \in Messages
    /\ logValue = <<>>
    /\ NoStartup
    /\ IdleAdapter

\* the additionPromises callback up to its setBreakpoint call
SetBreakpointLog ==
    /\ logValue = <<>>
    /\ logValue' = << LogValue(logMessage) >>
    /\ UNCHANGED <<startupVars, logMessage, AdapterVars>>

SpecLog == InitLog /\ [][SetBreakpointLog]_vars

\* two adapters of one thread and of either protocol; the editor has one
\* breakpoint per source; the thread runs
InitTwo ==
    /\ newBreakpointProtocol \in BOOLEAN
    /\ pool = {Base}
    /\ adapters = {1, 2}
    /\ threadState = "Running"
    /\ Constructed
    /\ NoStartup
    /\ NoRequest

\* the arrays the editor submits for a source with one breakpoint
SingleArrays == { <<>>, <<BreakpointInfo(Base)>> }

NextTwo ==
    \/ \E s \in adapters : \E bps \in SingleArrays : updateBreakpoints(s, bps)
    \/ \E s \in adapters : \E k \in 1..Len(activeRuns[s]) :
          \E i \in 1..Len(activeRuns[s][k].deletes) : DeleteResolves(s, k, i)
    \/ \E s \in adapters : \E k \in 1..Len(activeRuns[s]) :
          \E i \in 1..Len(activeRuns[s][k].deletes) : DeleteRejects(s, k, i)
    \/ \E s \in adapters : \E k \in 1..Len(activeRuns[s]) : DeletionsDone(s, k)
    \/ \E s \in adapters : \E k \in 1..Len(activeRuns[s]) : PositionsResolve(s, k)
    \/ \E s \in adapters : \E k \in 1..Len(activeRuns[s]) : PositionsReject(s, k)
    \/ \E s \in adapters : \E k \in 1..Len(activeRuns[s]) :
          \E i \in 1..Len(activeRuns[s][k].adds) : AddResolves(s, k, i)
    \/ \E s \in adapters : \E k \in 1..Len(activeRuns[s]) :
          \E i \in 1..Len(activeRuns[s][k].adds) : AddRejects(s, k, i)
    \/ \E s \in adapters : \E k \in 1..Len(activeRuns[s]) : AdditionsDone(s, k)
    \/ PauseConfirmed
    \/ RunQueuedAction
    \/ ResumeThread
    \/ ResumeConfirmed

SpecTwo == InitTwo /\ [][NextTwo]_vars

----------------------------------------------------------------------------
(* Properties *)

Installed(s) == currentBreakpoints[s]

HasEquivalentPair(seq) ==
    \E i, j \in 1..Len(seq) :
        i # j /\ isEquivalent(seq[i].breakpointInfo, seq[j].breakpointInfo)

\* C1: the installed set of an adapter never holds two installed breakpoints
\* with equivalent descriptors, whatever desired sets were submitted
C1_NoEquivalentInstalled ==
    \A s \in adapters : ~ HasEquivalentPair(Installed(s))

\* C2: at most one syncBreakpoints run per adapter executes at any time, and
\* a run has started only if every earlier run of the adapter has written
\* the installed set and cleared the flag
C2_SingleFlight ==
    \A s \in adapters :
        /\ Len(activeRuns[s]) <= 1
        /\ \A n \in 2..Len(runLog[s]) : runLog[s][n - 1].outcome = "completed"

\* adapter s has nothing left to do until the next updateBreakpoints call
Quiescent(s) ==
    /\ activeRuns[s] = <<>>
    /\ running # s
    /\ \A i \in 1..Len(queue) : queue[i] # s

RemoteFailures == {"deleteFailed", "positionsFailed", "addFailed"}

NoRemoteFailure(s) ==
    \A n \in 1..Len(runLog[s]) : runLog[s][n].outcome \notin RemoteFailures

Infos(installed) == [i \in 1..Len(installed) |-> installed[i].breakpointInfo]

\* number of descriptors of a sequence that have the equivalence key d
KeyCount(infos, d) ==
    Cardinality({ i \in 1..Len(infos) : infos[i].requestedBreakpoint = d })

RunsObserving(s, sub) ==
    { n \in 1..Len(runLog[s]) : runLog[s][n].sub = sub }

\* C3: once nothing is left to do and no remote operation has failed, no run
\* is in flight, nothing is pending and the installed set holds exactly one
\* breakpoint per equivalence key of the most recently submitted set
C3_ConvergesToLatest ==
    \A s \in adapters :
        (Quiescent(s) /\ lastSubmitted[s].defined /\ NoRemoteFailure(s)) =>
            /\ ~ isSyncingBreakpoints[s]
            /\ ~ desiredBreakpoints[s].defined
            /\ \A d \in pool :
                 KeyCount(Infos(Installed(s)), d) =
                    IF KeyCount(lastSubmitted[s].bps, d) > 0 THEN 1 ELSE 0

\* C4: a run that has issued its position query or its adds has no delete
\* that is still outstanding
C4_DeletesBeforeAdds ==
    \A s \in adapters : \A k \in 1..Len(activeRuns[s]) :
        activeRuns[s][k].pc \in {"positions", "adding"} =>
            \A i \in 1..Len(activeRuns[s][k].deletes) :
                activeRuns[s][k].deletes[i].status = "ok"

\* a run replaces A by B, same position and another condition, and has
\* issued the add of B
C4_Witness ==
    \E s \in adapters : \E k \in 1..Len(activeRuns[s]) :
        LET run == activeRuns[s][k]
        IN  /\ run.pc = "adding"
            /\ Len(run.toDelete) = 1 /\ Len(run.toAdd) = 1
            /\ run.adds[1].status = "pending"
            /\ run.toDelete[1].breakpointInfo.requestedBreakpoint.line =
                  run.toAdd[1].requestedBreakpoint.line
            /\ run.toDelete[1].breakpointInfo.requestedBreakpoint.column =
                  run.toAdd[1].requestedBreakpoint.column
            /\ run.toDelete[1].breakpointInfo.requestedBreakpoint.condition #
                  run.toAdd[1].requestedBreakpoint.condition

\* C5: a run whose captured set equals the set of the last completed run
\* issues no delete and no add and leaves the installed set as it is
C5_Idempotent ==
    [][ \A s \in adapters : \A k \in 1..Len(activeRuns[s]) :
          (/\ lastApplied[s].defined
           /\ activeRuns[s][k].desired.bps = lastApplied[s].bps) =>
              /\ activeRuns[s][k].toDelete = <<>>
              /\ activeRuns[s][k].toAdd = <<>>
              /\ currentBreakpoints'[s] = currentBreakpoints[s] ]_vars

\* the second run of a non-empty set has passed its deletes and reached the adds
C5_Witness ==
    \E s \in adapters : \E k \in 1..Len(activeRuns[s]) :
        /\ lastApplied[s].defined
        /\ activeRuns[s][k].desired.bps = lastApplied[s].bps
        /\ Len(lastApplied[s].bps) > 0
        /\ activeRuns[s][k].pc = "adding"

Fields == {"line", "column", "condition", "logMessage"}

DiffersInOneField(a, b) == Cardinality({ f \in Fields : a[f] # b[f] }) = 1

\* C6: per equivalence key, a run deletes every installed breakpoint of a key
\* the captured set lacks and none of a key it has, keeps the others, and
\* adds every desired descriptor of a key no kept breakpoint has; a single
\* differing field gives one delete and then one add
C6_ExactDiff ==
    \A s \in adapters : \A k \in 1..Len(activeRuns[s]) :
        LET run == activeRuns[s][k]
            cur == Infos(Installed(s))
            des == run.desired.bps
        IN  /\ \A d \in pool :
                 /\ KeyCount(Infos(run.toDelete), d) =
                       IF KeyCount(des, d) > 0 THEN 0 ELSE KeyCount(cur, d)
                 /\ KeyCount(Infos(run.toKeep), d) =
                       IF KeyCount(des, d) > 0 THEN KeyCount(cur, d) ELSE 0
                 /\ run.pc # "deleting" =>
                       KeyCount(run.toAdd, d) =
                          IF KeyCount(Infos(run.toKeep), d) > 0
                            THEN 0 ELSE KeyCount(des, d)
            /\ (/\ Len(cur) = 1 /\ Len(des) = 1
                /\ DiffersInOneField(cur[1].requestedBreakpoint,
                                     des[1].requestedBreakpoint)) =>
                   /\ Len(run.toDelete) = 1
                   /\ run.pc # "deleting" => Len(run.toAdd) = 1

\* installed and desired differ in the condition only, the delete is done and
\* the add is issued
C6_Witness ==
    \E s \in adapters : \E k \in 1..Len(activeRuns[s]) :
        LET run == activeRuns[s][k]
        IN  /\ Len(Installed(s)) = 1 /\ Len(run.desired.bps) = 1
            /\ Installed(s)[1].breakpointInfo.requestedBreakpoint.logMessage #
                  run.desired.bps[1].requestedBreakpoint.logMessage
            /\ run.pc = "adding"
            /\ Len(run.toDelete) = 1 /\ Len(run.toAdd) = 1

\* C7: a set submitted before the previous one was reconciled is observed by
\* exactly one run and is the set applied once the adapter has nothing left
\* to do, and no two runs of an adapter execute together
C7_BackToBack ==
    \A s \in adapters :
        /\ Len(activeRuns[s]) <= 1
        /\ (backToBack[s] /\ Quiescent(s)) =>
              /\ Cardinality(RunsObserving(s, lastSubmitted[s].sub)) = 1
              /\ lastApplied[s].sub = lastSubmitted[s].sub

\* C8: a run that starts captures the most recently submitted set as it was
\* submitted, and no run ever captured a set that was overwritten while pending
C8_LastPendingWins ==
    [][ \A s \in adapters :
          /\ \A n \in 1..Len(runLog'[s]) : runLog'[s][n].sub \notin overwritten'
          /\ Len(activeRuns'[s]) > Len(activeRuns[s]) =>
                activeRuns'[s][Len(activeRuns'[s])].desired = lastSubmitted'[s] ]_vars

\* two sets were submitted during the first run; the second run holds the last
C8_Witness ==
    \E s \in adapters : \E k \in 1..Len(activeRuns[s]) :
        /\ activeRuns[s][k].n = 2
        /\ runLog[s][1] = [sub |-> 1, outcome |-> "completed"]
        /\ 2 \in overwritten
        /\ activeRuns[s][k].desired.sub = 3
        /\ activeRuns[s][k].desired.bps # <<>>

HasFailed(st) == \E i \in 1..Len(st) : st[i].status = "failed"

\* C9: the latest run, if one of its deletes failed, has still completed, and
\* the installed set holds none of the breakpoints it set out to delete
C9_FailedDeleteTolerated ==
    \A s \in adapters :
        LET run == lastFailed[s]
        IN  HasFailed(run.deletes) =>
               /\ runLog[s][run.n].outcome = "completed"
               /\ \A i \in 1..Len(run.toDelete) : \A j \in 1..Len(Installed(s)) :
                     Installed(s)[j] # run.toDelete[i]

\* C10: the latest run, if one of its adds failed, has still completed, and
\* the installed set holds the kept breakpoints and every add that succeeded
C10_FailedAddDropped ==
    \A s \in adapters :
        LET run == lastFailed[s]
        IN  HasFailed(run.adds) =>
               /\ runLog[s][run.n].outcome = "completed"
               /\ \A i \in 1..Len(run.toKeep) :
                     \E j \in 1..Len(Installed(s)) : Installed(s)[j] = run.toKeep[i]
               /\ \A i \in 1..Len(run.toAdd) :
                     run.adds[i].status = "ok" =>
                        \E j \in 1..Len(Installed(s)) :
                            Installed(s)[j].breakpointInfo = run.toAdd[i]

\* a legacy run of adapter s has issued adds that are not answered yet
AddsInFlight(s) ==
    \E k \in 1..Len(activeRuns[s]) :
        /\ activeRuns[s][k].pc = "adding"
        /\ \E i \in 1..Len(activeRuns[s][k].adds) :
               activeRuns[s][k].adds[i].status = "pending"

\* C11: with the legacy protocol, whenever a run has issued an add that is
\* not answered yet, the thread is in the Paused state of the coordinator
C11_AddsWhilePaused ==
    \A s \in adapters :
        (~ newBreakpointProtocol /\ AddsInFlight(s)) => threadState = "Paused"

\* the coordinator paused the running thread for a legacy run, whose add is
\* in flight
C11_Witness ==
    /\ ~ newBreakpointProtocol
    /\ ownPause
    /\ threadState = "Paused"
    /\ \E s \in adapters : AddsInFlight(s)

\* the pause requests outnumber the resume requests by one exactly while the
\* thread is pausing or paused at the coordinator's request
PauseResumePaired ==
    pauseRequests = resumeRequests +
        (IF ownPause /\ threadState \in {"Pausing", "Paused"} THEN 1 ELSE 0)

\* a legacy add in flight is covered by the coordinator's one outstanding
\* pause request, or the thread was paused without the coordinator
AddsCoveredByPause ==
    \A s \in adapters :
        (~ newBreakpointProtocol /\ AddsInFlight(s)) =>
            \/ pauseRequests = resumeRequests + 1
            \/ threadState = "Paused" /\ ~ ownPause

\* C12: an action queued on a running thread sends one pause request, an
\* action queued while the thread is pausing or paused sends none; a resume
\* request is sent only once no action is queued or executing; pause and
\* resume requests alternate, and every legacy add is covered by a pause
C12_OnePausePerBatch ==
    [][ /\ (Len(queue') > Len(queue) /\ threadState = "Running") =>
              /\ pauseRequests' = pauseRequests + 1
              /\ resumeRequests' = resumeRequests
        /\ (Len(queue') > Len(queue) /\ threadState \in {"Pausing", "Paused"}) =>
              /\ pauseRequests' = pauseRequests
              /\ resumeRequests' = resumeRequests
        /\ resumeRequests' # resumeRequests =>
              /\ resumeRequests' = resumeRequests + 1
              /\ queue = <<>> /\ running = 0
              /\ \A s \in adapters : activeRuns[s] = <<>>
        /\ PauseResumePaired /\ PauseResumePaired'
        /\ AddsCoveredByPause /\ AddsCoveredByPause' ]_vars

\* both adapters queued an addition before the pause was confirmed, both runs
\* have completed and the thread runs again after one pause and one resume
C12_Witness ==
    /\ ~ newBreakpointProtocol
    /\ threadState = "Running"
    /\ pauseRequests = 1 /\ resumeRequests = 1
    /\ nsub = 2
    /\ \A s \in adapters :
          /\ runLog[s] = << [sub |-> s, outcome |-> "completed"] >>
          /\ Len(currentBreakpoints[s]) = 1

\* the run activeRuns[s][k] settles in this step
Settles(s, k) ==
    \A j \in 1..Len(activeRuns'[s]) : activeRuns'[s][j].n # activeRuns[s][k].n

\* the indices of the adds of a run that succeeded
SucceededAdds(run) == { i \in 1..Len(run.adds) : run.adds[i].status = "ok" }

\* C13: the step that settles a run calls verifyBreakpoint once for each
\* breakpoint whose add succeeded in the run and for no other breakpoint,
\* with the position resolved for it (modern protocol)
C13_VerifiedOncePerAdd ==
    [][ \A s \in adapters : \A k \in 1..Len(activeRuns[s]) :
          LET run == activeRuns[s][k]
          IN  Settles(s, k) =>
                /\ \A d \in pool :
                      KeyCount(Infos(verified'[s]), d) =
                         Cardinality({ i \in SucceededAdds(run) :
                                         run.toAdd[i].requestedBreakpoint = d })
                /\ newBreakpointProtocol =>
                      \A j \in 1..Len(verified'[s]) :
                         LET v == verified'[s][j]
                             rq == v.breakpointInfo.requestedBreakpoint
                             loc == findNextBreakpointPosition(rq.line,
                                       IF rq.column = NoColumn THEN 0 ELSE rq.column,
                                       BreakpointPositions)
                         IN  v.line = loc.line /\ v.column = loc.column ]_vars

\* C14: a legacy run that completes reports for every added breakpoint the
\* location of the add result if it carries one, and the requested line and
\* column otherwise
C14_RuntimePositionWins ==
    [][ \A s \in adapters : \A k \in 1..Len(activeRuns[s]) :
          LET run == activeRuns[s][k]
          IN  (/\ ~ newBreakpointProtocol
               /\ Settles(s, k)
               /\ runLog'[s][run.n].outcome = "completed") =>
                 /\ Len(verified'[s]) = Len(run.toAdd)
                 /\ \A i \in 1..Len(run.toAdd) :
                       LET v == verified'[s][i]
                           loc == run.adds[i].actualLocation
                           rq == run.toAdd[i].requestedBreakpoint
                       IN  /\ v.breakpointInfo = run.toAdd[i]
                           /\ loc # NoLocation =>
                                 v.line = loc.line /\ v.column = loc.column
                           /\ loc = NoLocation =>
                                 v.line = rq.line /\ v.column = rq.column ]_vars

\* a legacy run has reported one breakpoint at the location the runtime
\* gave and another one, without such a location, at its requested position
C14_Witness ==
    /\ ~ newBreakpointProtocol
    /\ \E s \in adapters : \E i, j \in 1..Len(verified[s]) :
          /\ verified[s][i].line =
                verified[s][i].breakpointInfo.requestedBreakpoint.line + 1
          /\ verified[s][i].column = 0
          /\ verified[s][j].line =
                verified[s][j].breakpointInfo.requestedBreakpoint.line
          /\ verified[s][j].column =
                verified[s][j].breakpointInfo.requestedBreakpoint.column

\* the pending set, the in-flight flag and the installed set of adapter s
OwnFields(s) ==
    <<desiredBreakpoints[s], isSyncingBreakpoints[s], currentBreakpoints[s]>>

\* no step writes the fields of more than one adapter
OneAdapterPerStep ==
    \A s, t \in adapters :
        (OwnFields(s)' # OwnFields(s) /\ OwnFields(t)' # OwnFields(t)) => s = t

\* no idle adapter is left with a pending set while a run of another adapter
\* is in flight
NotHeldBack ==
    \A s, t \in adapters :
        (s # t /\ activeRuns[s] # <<>>) =>
            ~ (desiredBreakpoints[t].defined /\ ~ isSyncingBreakpoints[t])

CreatedByAdd ==
    \A s \in adapters : \A j \in 1..Len(currentBreakpoints'[s]) :
        \/ \E i \in 1..Len(currentBreakpoints[s]) :
               currentBreakpoints[s][i] = currentBreakpoints'[s][j]
        \/ \E k \in 1..Len(activeRuns[s]) :
               \E i \in SucceededAdds(activeRuns[s][k]) :
                  /\ Settles(s, k)
                  /\ currentBreakpoints'[s][j].breakpointInfo = activeRuns[s][k].toAdd[i]

\* a disposed adapter has no installed breakpoint and its lookups find none
EmptyOnceDisposed ==
    \A s \in adapters :
        disposed[s] =>
            /\ currentBreakpoints[s] = <<>>
            /\ \A a \in ActorNames :
                  findBreakpointAdapterForActorName(s, a) = NoAdapter
            /\ \A l \in Locations :
                  findBreakpointAdapterForLocation(s, l) = NoAdapter

\* C16: an installed breakpoint is created only by an add that succeeded, and
\* after dispose() the installed set is empty and both lookups find nothing
C16_DestroyedOnDispose ==
    [][ CreatedByAdd /\ EmptyOnceDisposed' ]_vars

\* the option sets that conflict or are incomplete
Conflicting(c, e) ==
    \/ c.request = "launch" /\ Truthy(c.profile) /\ Truthy(c.profileDir)
    \/ /\ c.request = "launch" /\ c.keepProfileChanges
       /\ ~ Truthy(c.profile) /\ ~ Truthy(c.profileDir)
    \/ /\ c.request = "launch"
       /\ ~ Truthy(c.file) /\ ~ Truthy(c.url) /\ ~ Truthy(c.addonPath)
    \/ /\ c.request = "launch" /\ Truthy(c.file)
       /\ ~ pathIsAbsolute(c.file, e.platform)
    \/ Truthy(c.url) /\ ~ Truthy(c.webRoot) /\ ~ c.pathMappings
    \/ Truthy(c.webRoot) /\ ~ Truthy(c.url)
    \/ /\ Truthy(c.webRoot)
       /\ ~ pathIsAbsolute(c.webRoot, e.platform) /\ ~ isAbsoluteUrl(c.webRoot)

\* C17: parseConfiguration, once it has settled, has thrown for every
\* conflicting or incomplete option set and produced no ParsedConfiguration
C17_ConflictsThrow ==
    (parsed.state # "none" /\ Conflicting(config, env)) => parsed.state = "thrown"

\* a launch configuration that is complete but for setting both profile and
\* profileDir has been rejected for that
C17_Witness ==
    /\ config.request = "launch"
    /\ Truthy(config.profile) /\ Truthy(config.profileDir)
    /\ config.file = AbsolutePath /\ ~ Truthy(config.url)
    /\ ~ Truthy(config.webRoot)
    /\ env.isExecutable
    /\ parsed = Thrown(ErrProfileBoth)

\* the label of a source without URL
IntroductionLabel(actor) ==
    IF Truthy(actor.introductionType) THEN actor.introductionType ELSE <<"Script">>

\* C18: the Source built by createSource is named after the last path segment
\* of the actor's URL, without query string or fragment, or without URL after
\* the introduction type and the digits the actor's name ends in; it has the
\* local path if sourcePath is defined and the id as its reference otherwise
C18_SourceName ==
    source # NoSource =>
        LET actor == sourceArgs.actor
            segment == LastPart(actor.url.value, "/")
        IN  /\ actor.url.defined =>
                  /\ \A i \in 1..Len(source.name) : source.name[i] \notin {"?", "#"}
                  /\ \E n \in 0..Len(segment) : source.name = SubSeq(segment, 1, n)
                  /\ Len(source.name) < Len(segment) =>
                        segment[Len(source.name) + 1] \in {"?", "#"}
            /\ (~ actor.url.defined /\ TrailingDigits(actor.name) # <<>>) =>
                  source.name = IntroductionLabel(actor) \o <<" ">>
                                   \o TrailingDigits(actor.name)
            /\ sourceArgs.sourcePath.defined => source.path = sourceArgs.sourcePath
            /\ ~ sourceArgs.sourcePath.defined =>
                  source.sourceReference = sourceArgs.id

\* a syncBreakpoints call starts on adapter s while no set is pending
StartsWithoutPending(s) ==
    /\ Len(runLog'[s]) > Len(runLog[s])
    /\ nsub' = nsub
    /\ ~ desiredBreakpoints[s].defined

\* C19: a run that starts with no pending set issues no remote operation,
\* leaves the installed set and the flag as they are and raises no fault
C19_EmptyRunDoesNothing ==
    [][ \A s \in adapters :
          StartsWithoutPending(s) =>
              /\ activeRuns'[s] = activeRuns[s]
              /\ currentBreakpoints'[s] = currentBreakpoints[s]
              /\ isSyncingBreakpoints'[s] = isSyncingBreakpoints[s]
              /\ runLog'[s][Len(runLog'[s])].outcome # "crashed" ]_vars

\* C20: once the run in which a remote operation failed has settled and the
\* adapter has nothing left to do, the flag is clear, and a set submitted
\* after the failed one has been taken up by a run
C20_RecoversFromFailure ==
    \A s \in adapters :
        (lastFailed[s] # NoRun /\ Quiescent(s)) =>
            /\ ~ isSyncingBreakpoints[s]
            /\ lastSubmitted[s].sub > lastFailed[s].desired.sub =>
                  RunsObserving(s, lastSubmitted[s].sub) # {}

\* the descriptor has an actual line or an actual column
HasActualPosition(info) == info.actualLine # NoPos \/ info.actualColumn # NoPos

\* the descriptors a run is adding whose setBreakpoint has not succeeded
UnsucceededAdds(run) ==
    { run.toAdd[i] : i \in { j \in 1..Len(run.adds) : run.adds[j].status # "ok" } }

\* C21: a descriptor whose add is still in flight or has failed has neither
\* an actual line nor an actual column
C21_ActualAfterSuccess ==
    \A s \in adapters :
        /\ \A k \in 1..Len(activeRuns[s]) :
               \A info \in UnsucceededAdds(activeRuns[s][k]) :
                   ~ HasActualPosition(info)
        /\ \A info \in UnsucceededAdds(lastFailed[s]) : ~ HasActualPosition(info)

\* the fields of the adapters and of the coordinator
ProgramState ==
    <<currentBreakpoints, desiredBreakpoints, isSyncingBreakpoints, activeRuns,
      threadState, queue, running, ownPause, pauseRequests, resumeRequests,
      disposed>>

\* the installed set of adapter s is written in this step
InstalledWritten(s) == currentBreakpoints'[s] # currentBreakpoints[s]

\* C22: the installed set is written only by the step that ends a run of the
\* same adapter, with the kept and the added breakpoints of that run; a step
\* of updateBreakpoints, of dispose or of a lookup leaves every installed
\* set as it is, and a lookup changes no field at all
C22_InstalledFrame ==
    [][ /\ \A s \in adapters :
             InstalledWritten(s) =>
                 \E k \in 1..Len(activeRuns[s]) :
                     /\ Settles(s, k)
                     /\ activeRuns[s][k].pc = "adding"
                     /\ currentBreakpoints'[s] = NewCurrent(activeRuns[s][k])
        /\ (nsub' # nsub \/ disposed' # disposed \/ found' # found) =>
               currentBreakpoints' = currentBreakpoints
        /\ found' # found => ProgramState' = ProgramState ]_vars

\* a lookup has found an installed breakpoint while another run was in
\* flight, on an adapter that was disposed
C22_Witness ==
    \E s \in adapters :
        /\ found # <<>>
        /\ found[1] # NoAdapter
        /\ currentBreakpoints[s] # <<>>
        /\ activeRuns[s] # <<>>
        /\ disposed[s]
        /\ nsub > 1

\* the syncBreakpoints calls of adapter s that captured a pending set
ConsumingRuns(s) == { n \in 1..Len(runLog[s]) : runLog[s][n].sub # 0 }

\* every run of s has captured one pending set, and no set was captured twice
OneSetPerRun(s) ==
    /\ ConsumingRuns(s) = 1..Len(runLog[s])
    /\ \A m, n \in ConsumingRuns(s) :
           runLog[s][m].sub = runLog[s][n].sub => m = n

\* the adapters never ran more often than sets were submitted
RunsWithinSubmissions ==
    \A s \in adapters : Len(runLog[s]) <= nsub

\* the chain of runs of s has ended with the flag clear and nothing pending
ChainEnded(s) ==
    (Quiescent(s) /\ NoRemoteFailure(s)) =>
        /\ ~ isSyncingBreakpoints[s]
        /\ ~ desiredBreakpoints[s].defined

\* C23: every run consumes exactly one pending set, there are never more runs
\* than submissions, and when no remote operation has failed the chain of
\* runs ends with the in-flight flag clear and no pending set
C23_RunsConsumeSubmissions ==
    /\ RunsWithinSubmissions
    /\ \A s \in adapters : OneSetPerRun(s) /\ ChainEnded(s)

\* the message with every opening brace of a placeholder rewritten to ${
RECURSIVE AllPlaceholdersRewritten(_)
AllPlaceholdersRewritten(message) ==
    IF message = <<>> THEN <<>>
    ELSE (IF Head(message) = "{" THEN <<"$", "{">> ELSE << Head(message) >>)
            \o AllPlaceholdersRewritten(Tail(message))

\* C24: the log expression sent with a modern add is the log message between
\* backticks with every {expr} placeholder rewritten to ${expr}; without a
\* log message no log expression is sent
C24_LogExpression ==
    logValue # <<>> =>
        logValue[1] = IF logMessage = Undefined
                        THEN None
                        ELSE Some(<<Backtick>> \o AllPlaceholdersRewritten(logMessage)
                                     \o <<Backtick>>)

====
